---- MODULE Spec2Model ----
(***************************************************************************)
(* The booking dialog (BookingForm) of the apartment-booking storefront:   *)
(* the load of the booked days, date selection, coupon application and the *)
(* submission that hands the booking to the hosted checkout.               *)
(*                                                                         *)
(* A Date is an instant: day * TicksPerDay + time of day.  The store's     *)
(* check_in / check_out values are date strings, modelled by their day.    *)
(***************************************************************************)
EXTENDS Integers, Sequences, FiniteSets, TLC

\* ------------------------------------------------------------- bounds
NumDays == 3
TicksPerDay == 2
MaxIntervals == 2
MaxAnswerRows == 1
MaxRequests == 2
DaysPerMonth == 2
MaxSelections == 2

Days == 0 .. (NumDays - 1)
Dates == 0 .. (NumDays * TicksPerDay - 1)

\* ------------------------------------------------------------- values
NoDate == -1
Undefined == "undefined"
NoError == "null"
NoUrl == "app"

MsgDateBooked == "This date is already booked"
MsgRangeBooked == "Some days in this range are already booked"
MsgRequired == "Please fill in all required fields"
MsgOrder == "Check-out date must be after check-in date"
MsgCheckout == "Failed to create checkout session"
MsgFetch == "Failed to fetch available dates"
MsgThrown == "<message of the thrown Error>"

MsgEnterCoupon == "Please enter a coupon code"
MsgCouponInvalid == "Invalid or expired coupon code"
MsgCouponFailed == "Failed to validate coupon"

GuestTexts == {"", "guest"}

\* the catalog: apartment ids
Apartments == {"A", "B"}

NoApartment == "none"

\* apartment.price_per_night, in hundredths of a cent: 100.00 and 1.15
PriceOf == [a \in Apartments |-> IF a = "A" THEN 1000000 ELSE 11500]

\* no other dialog is open
NoPeer == <<>>

NoCoupon == [code |-> "", discount_percent |-> 0]
Save10 == [code |-> "SAVE10", discount_percent |-> 10]

Free100 == [code |-> "FREE100", discount_percent |-> 100]

\* the active, unexpired rows of the coupons table
Coupons == {Save10, Free100}

\* what the coupon field can hold
CouponTexts == {"", " ", "SAVE10", " SAVE10", "EXPIRED99"}

\* the codes typed where the price is followed from coupon to coupon
PriceTexts == {"SAVE10", "FREE100", "EXPIRED99"}

\* variant: the text is taken as typed
trimNothing(text) == text

\* String.prototype.trim on the texts of the coupon field
trim(text) ==
    CASE text = " " -> ""
      [] text = " SAVE10" -> "SAVE10"
      [] OTHER -> text

\* what the checkout endpoint can answer
HandoffAnswers == {"rejected", "not ok", "not json", "no url", "url"}

\* date-fns: eachDayOfInterval of an interval whose start is after its end
\* throws RangeError in some releases and walks the interval backwards in
\* others; the build fixes which.
IntervalPolicies == {"throw", "reverse"}

\* ------------------------------------------------------------- state
VARIABLES
    policy,          \* what eachDayOfInterval does with start > end in this build
    bookingDetails,  \* the draft: checkIn, checkOut, guestName, guestEmail
    isLoading,       \* a submission is in progress
    error,           \* the message shown, or NoError
    bookedDates,     \* the DateSet: the booked days, each as its midnight instant
    fetchPending,    \* the load of the booked intervals has not answered yet
    handoff,         \* the checkout requests in flight (at most one)
    location,        \* window.location.href: NoUrl, or where the page was sent
    couponCode,      \* the text of the coupon field
    appliedCoupon,   \* the coupon applied to the draft, or NoCoupon
    isValidatingCoupon, \* a coupon lookup is in progress
    couponLookup,    \* the coupon lookups in flight, each the code asked for
    storeRows,       \* SpecDateSet, SpecRace: the rows the store answers the load with
    fetchRequests,   \* the loads in flight, each the apartment it was issued for
    bookedFor,       \* the apartment whose answer built the DateSet, or NoApartment
    apartment,       \* the apartment prop: App's selectedApartment
    peer,            \* SpecRace only: the dialog of the other browser, at rest
    currentMonth,    \* BookingCalendar: the month shown
    rulesAccepted,   \* BookingCalendar: the house-rules checkbox
    showRules,       \* BookingCalendar: the rules are shown in place of the calendar
    showError,       \* BookingCalendar: the request to accept the rules is shown
    today,           \* BookingCalendar: new Date() of the render on screen
    now,             \* the clock
    onDateSelect     \* BookingCalendar: the dates handed to onDateSelect so far

vars == <<policy, bookingDetails, isLoading, error, bookedDates, fetchPending,
          handoff, location, couponCode, appliedCoupon, isValidatingCoupon,
          couponLookup, storeRows,
                   fetchRequests, bookedFor, apartment, peer,
          currentMonth, rulesAccepted, showRules, showError, today, now,
          onDateSelect>>

calendarVars == <<currentMonth, rulesAccepted, showRules, showError, today,
                  now, onDateSelect>>

couponVars == <<couponCode, appliedCoupon, isValidatingCoupon, couponLookup>>

\* ------------------------------------------------------------- dates
DayOf(date) == date \div TicksPerDay

startOfDay(date) == DayOf(date) * TicksPerDay

\* variant: compares the instants, time of day included
isSameInstant(a, b) == a = b

isSameDay(a, b) == startOfDay(a) = startOfDay(b)

\* format(date, 'yyyy-MM-dd'): the calendar day of the instant
format(date) == DayOf(date)

\* parseISO of a date-only string: local midnight of that day
parseISO(day) == day * TicksPerDay

differenceInDays(later, earlier) ==
    IF later >= earlier
    THEN (later - earlier) \div TicksPerDay
    ELSE 0 - ((earlier - later) \div TicksPerDay)

IntervalThrows(start, end) == policy = "throw" /\ start > end

\* variant: the day of the end is left out
eachDayOfIntervalHalfOpen(start, end) ==
    IF start <= end
    THEN [i \in 1 .. (DayOf(end) - DayOf(start)) |->
              (DayOf(start) + i - 1) * TicksPerDay]
    ELSE [i \in 1 .. (DayOf(start) - DayOf(end)) |->
              (DayOf(start) - i + 1) * TicksPerDay]

\* the days of the interval, as midnight instants, in the order returned
eachDayOfInterval(start, end) ==
    IF start <= end
    THEN [i \in 1 .. (DayOf(end) - DayOf(start) + 1) |->
              (DayOf(start) + i - 1) * TicksPerDay]
    ELSE [i \in 1 .. (DayOf(start) - DayOf(end) + 1) |->
              (DayOf(start) - i + 1) * TicksPerDay]

\* ------------------------------------------------------------- the DateSet
\* a row of the bookings table, as selected: check_in, check_out
Intervals == [check_in : Days, check_out : Days]

\* the lists the DateSet builder is checked on
IntervalLists == UNION {[1 .. n -> Intervals] : n \in 0 .. MaxIntervals}

\* the answers of the store within a session
AnswerLists == UNION {[1 .. n -> Intervals] : n \in 0 .. MaxAnswerRows}

\* the store answered with a row eachDayOfInterval throws on
DataThrows(data) ==
    \E i \in 1 .. Len(data) :
        IntervalThrows(parseISO(data[i].check_in), parseISO(data[i].check_out))

RECURSIVE allDates(_)
\* data.forEach(booking => allDates.push(...eachDayOfInterval({start, end})))
allDates(data) ==
    IF data = <<>>
    THEN <<>>
    ELSE eachDayOfInterval(parseISO(Head(data).check_in),
                           parseISO(Head(data).check_out))
         \o allDates(Tail(data))

\* Array.from(new Set(allDates.map(format))).map(parseISO)
uniqueDates(data) ==
    LET all == allDates(data)
    IN  {parseISO(format(all[i])) : i \in 1 .. Len(all)}

\* variant: looks the instant itself up in the DateSet
isInstantBooked(date) == date \in bookedDates

isDateBooked(date) == \E bookedDate \in bookedDates : isSameDay(bookedDate, date)

\* variant: only the two endpoints are looked up
EndpointsHaveConflict(start, end) ==
    (\E bookedDate \in bookedDates : isSameDay(bookedDate, start))
    \/ (\E bookedDate \in bookedDates : isSameDay(bookedDate, end))

\* daysToCheck.some(date => isDateBooked(date)) over eachDayOfInterval
RangeHasConflict(start, end) ==
    LET daysToCheck == eachDayOfInterval(start, end)
    IN  \E i \in 1 .. Len(daysToCheck) : isDateBooked(daysToCheck[i])

\* ------------------------------------------------------------- construction
\* one dialog, opened on the first apartment of the catalog
InitAlone ==
    /\ apartment = "A"
    /\ peer = NoPeer

InitialDetails ==
    [checkIn |-> NoDate, checkOut |-> NoDate,
     guestName |-> Undefined, guestEmail |-> Undefined]

\* the pages of the dialog render no BookingCalendar
NoCalendar ==
    /\ currentMonth = 0
    /\ rulesAccepted = FALSE
    /\ showRules = FALSE
    /\ showError = FALSE
    /\ today = 0
    /\ now = 0
    /\ onDateSelect = <<>>

\* the dialog as mounted: its state hooks but the coupon's, and the effect's
\* load in flight
InitHooks ==
    /\ NoCalendar
    /\ policy \in IntervalPolicies
    /\ bookingDetails = InitialDetails
    /\ isLoading = FALSE
    /\ error = NoError
    /\ bookedDates = {}
    /\ fetchPending = TRUE
    /\ fetchRequests = <<apartment>>
    /\ bookedFor = NoApartment
    /\ handoff = <<>>
    /\ location = NoUrl
    /\ couponCode = ""
    /\ isValidatingCoupon = FALSE
    /\ couponLookup = <<>>

\* the dialog as mounted
InitForm ==
    /\ InitHooks
    /\ appliedCoupon = NoCoupon

\* ------------------------------------------------------------- the load
\* the loads in flight once the i-th has answered
WithoutRequest(i) ==
    [j \in 1 .. (Len(fetchRequests) - 1) |->
         IF j < i THEN fetchRequests[j] ELSE fetchRequests[j + 1]]

\* the store answered the load with rows: build the DateSet, or fail in catch
fetchBookedDates(data) ==
    /\ fetchPending
    /\ \E i \in DOMAIN fetchRequests :
           /\ fetchRequests' = WithoutRequest(i)
           /\ fetchPending' = (WithoutRequest(i) # <<>>)
           /\ IF DataThrows(data)
              THEN error' = MsgFetch /\ UNCHANGED <<bookedDates, bookedFor>>
              ELSE /\ bookedDates' = uniqueDates(data)
                   /\ bookedFor' = fetchRequests[i]
                   /\ UNCHANGED error
    /\ UNCHANGED <<calendarVars, policy, bookingDetails, isLoading, handoff, location,
                   couponVars, storeRows, apartment, peer>>

\* the store answered the load with an error
fetchBookedDatesError ==
    /\ fetchPending
    /\ \E i \in DOMAIN fetchRequests :
           /\ fetchRequests' = WithoutRequest(i)
           /\ fetchPending' = (WithoutRequest(i) # <<>>)
    /\ error' = MsgFetch
    /\ UNCHANGED <<calendarVars, policy, bookingDetails, isLoading, bookedDates, handoff,
                   location, couponVars, storeRows, bookedFor, apartment, peer>>

\* a card's Book Now button while the dialog is open (the overlay covers the
\* cards but does not take them out of the tab order): the dialog stays
\* mounted, its state is kept, and the effect on apartment.id loads again
selectApartment(a) ==
    /\ location = NoUrl
    /\ a # apartment
    /\ Len(fetchRequests) < MaxRequests
    /\ apartment' = a
    /\ fetchRequests' = Append(fetchRequests, a)
    /\ fetchPending' = TRUE
    /\ UNCHANGED <<calendarVars, policy, bookingDetails, isLoading, error, bookedDates,
                   handoff, location, couponVars, storeRows, bookedFor, peer>>

\* ------------------------------------------------------------- date selection
\* variant: a check-in equal to the check-out keeps the check-out
newBookingDetailsStrict(type, date) ==
    IF type = "checkIn"
    THEN [bookingDetails EXCEPT
              !.checkIn = date,
              !.checkOut = IF bookingDetails.checkOut # NoDate
                              /\ date > bookingDetails.checkOut
                           THEN NoDate
                           ELSE @]
    ELSE [bookingDetails EXCEPT !.checkOut = date]

\* newBookingDetails after the branch on type
newBookingDetails(type, date) ==
    IF type = "checkIn"
    THEN [bookingDetails EXCEPT
              !.checkIn = date,
              !.checkOut = IF bookingDetails.checkOut # NoDate
                              /\ date >= bookingDetails.checkOut
                           THEN NoDate
                           ELSE @]
    ELSE [bookingDetails EXCEPT !.checkOut = date]

\* variant: the draft is stored before the range is checked
handleDateChangeStoresFirst(type, date) ==
    /\ location = NoUrl
    /\ LET new == newBookingDetails(type, date)
       IN  IF date = NoDate
           THEN UNCHANGED <<bookingDetails, error>>
           ELSE IF isDateBooked(date)
           THEN error' = MsgDateBooked /\ UNCHANGED bookingDetails
           ELSE IF new.checkIn # NoDate /\ new.checkOut # NoDate
                   /\ IntervalThrows(new.checkIn, new.checkOut)
           THEN UNCHANGED <<bookingDetails, error>>
           ELSE IF new.checkIn # NoDate /\ new.checkOut # NoDate
                   /\ RangeHasConflict(new.checkIn, new.checkOut)
           THEN error' = MsgRangeBooked /\ bookingDetails' = new
           ELSE bookingDetails' = new /\ error' = NoError
    /\ UNCHANGED <<calendarVars, policy, isLoading, bookedDates, fetchPending, handoff,
                   location, couponVars, storeRows,
                   fetchRequests, bookedFor, apartment, peer>>

\* variant: an accepted choice leaves the error as it was
handleDateChangeKeepsError(type, date) ==
    /\ location = NoUrl
    /\ LET new == newBookingDetails(type, date)
       IN  IF date = NoDate
           THEN UNCHANGED <<bookingDetails, error>>
           ELSE IF isDateBooked(date)
           THEN error' = MsgDateBooked /\ UNCHANGED bookingDetails
           ELSE IF new.checkIn # NoDate /\ new.checkOut # NoDate
                   /\ IntervalThrows(new.checkIn, new.checkOut)
           THEN UNCHANGED <<bookingDetails, error>>
           ELSE IF new.checkIn # NoDate /\ new.checkOut # NoDate
                   /\ RangeHasConflict(new.checkIn, new.checkOut)
           THEN error' = MsgRangeBooked /\ UNCHANGED bookingDetails
           ELSE bookingDetails' = new /\ UNCHANGED error
    /\ UNCHANGED <<calendarVars, policy, isLoading, bookedDates, fetchPending, handoff,
                   location, couponVars, storeRows,
                   fetchRequests, bookedFor, apartment, peer>>

\* the date pickers: a date chosen as check-in or check-out
handleDateChange(type, date) ==
    /\ location = NoUrl
    /\ LET new == newBookingDetails(type, date)
       IN  IF date = NoDate
           THEN UNCHANGED <<bookingDetails, error>>
           ELSE IF isDateBooked(date)
           THEN error' = MsgDateBooked /\ UNCHANGED bookingDetails
           ELSE IF new.checkIn # NoDate /\ new.checkOut # NoDate
                   /\ IntervalThrows(new.checkIn, new.checkOut)
           THEN UNCHANGED <<bookingDetails, error>>
           ELSE IF new.checkIn # NoDate /\ new.checkOut # NoDate
                   /\ RangeHasConflict(new.checkIn, new.checkOut)
           THEN error' = MsgRangeBooked /\ UNCHANGED bookingDetails
           ELSE bookingDetails' = new /\ error' = NoError
    /\ UNCHANGED <<calendarVars, policy, isLoading, bookedDates, fetchPending, handoff,
                   location, couponVars, storeRows,
                   fetchRequests, bookedFor, apartment, peer>>

\* onChange of the name and email fields
setGuestName(text) ==
    /\ location = NoUrl
    /\ bookingDetails' = [bookingDetails EXCEPT !.guestName = text]
    /\ UNCHANGED <<calendarVars, policy, isLoading, error, bookedDates, fetchPending, handoff,
                   location, couponVars, storeRows,
                   fetchRequests, bookedFor, apartment, peer>>

setGuestEmail(text) ==
    /\ location = NoUrl
    /\ bookingDetails' = [bookingDetails EXCEPT !.guestEmail = text]
    /\ UNCHANGED <<calendarVars, policy, isLoading, error, bookedDates, fetchPending, handoff,
                   location, couponVars, storeRows,
                   fetchRequests, bookedFor, apartment, peer>>

\* ------------------------------------------------------------- submission
\* variant: the range is not checked again at submission
SubmitErrorUnchecked ==
    LET checkIn == bookingDetails.checkIn
        checkOut == bookingDetails.checkOut
        guestEmail == bookingDetails.guestEmail
        guestName == bookingDetails.guestName
    IN  IF checkIn = NoDate \/ checkOut = NoDate
           \/ guestEmail \in {Undefined, ""} \/ guestName \in {Undefined, ""}
        THEN MsgRequired
        ELSE IF checkOut <= checkIn
        THEN MsgOrder
        ELSE IF FALSE
        THEN MsgRangeBooked
        ELSE NoError

\* variant: checkOut < checkIn instead of checkOut <= checkIn
SubmitErrorOrderLax ==
    LET checkIn == bookingDetails.checkIn
        checkOut == bookingDetails.checkOut
        guestEmail == bookingDetails.guestEmail
        guestName == bookingDetails.guestName
    IN  IF checkIn = NoDate \/ checkOut = NoDate
           \/ guestEmail \in {Undefined, ""} \/ guestName \in {Undefined, ""}
        THEN MsgRequired
        ELSE IF checkOut < checkIn
        THEN MsgOrder
        ELSE IF RangeHasConflict(checkIn, checkOut)
        THEN MsgRangeBooked
        ELSE NoError

\* variant: an empty text counts as present
SubmitErrorBlankAccepted ==
    LET checkIn == bookingDetails.checkIn
        checkOut == bookingDetails.checkOut
        guestEmail == bookingDetails.guestEmail
        guestName == bookingDetails.guestName
    IN  IF checkIn = NoDate \/ checkOut = NoDate
           \/ guestEmail \in {Undefined} \/ guestName \in {Undefined}
        THEN MsgRequired
        ELSE IF checkOut <= checkIn
        THEN MsgOrder
        ELSE IF RangeHasConflict(checkIn, checkOut)
        THEN MsgRangeBooked
        ELSE NoError

\* variant: a range another browser has a checkout request out for is refused
SubmitErrorReserved ==
    LET checkIn == bookingDetails.checkIn
        checkOut == bookingDetails.checkOut
        guestEmail == bookingDetails.guestEmail
        guestName == bookingDetails.guestName
    IN  IF checkIn = NoDate \/ checkOut = NoDate
           \/ guestEmail \in {Undefined, ""} \/ guestName \in {Undefined, ""}
        THEN MsgRequired
        ELSE IF checkOut <= checkIn
        THEN MsgOrder
        ELSE IF RangeHasConflict(checkIn, checkOut)
                \/ (/\ peer # NoPeer
                    /\ peer.handoff # <<>>
                    /\ DayOf(checkIn) <= DayOf(peer.handoff[1].checkOut)
                    /\ DayOf(peer.handoff[1].checkIn) <= DayOf(checkOut))
        THEN MsgRangeBooked
        ELSE NoError

\* variant: nothing is submitted while a message is shown
SubmitErrorWhileError ==
    LET checkIn == bookingDetails.checkIn
        checkOut == bookingDetails.checkOut
        guestEmail == bookingDetails.guestEmail
        guestName == bookingDetails.guestName
    IN  IF error # NoError
        THEN error
        ELSE IF checkIn = NoDate \/ checkOut = NoDate
           \/ guestEmail \in {Undefined, ""} \/ guestName \in {Undefined, ""}
        THEN MsgRequired
        ELSE IF checkOut <= checkIn
        THEN MsgOrder
        ELSE IF RangeHasConflict(checkIn, checkOut)
        THEN MsgRangeBooked
        ELSE NoError

\* the message handleSubmit throws while validating, or NoError
SubmitError ==
    LET checkIn == bookingDetails.checkIn
        checkOut == bookingDetails.checkOut
        guestEmail == bookingDetails.guestEmail
        guestName == bookingDetails.guestName
    IN  IF checkIn = NoDate \/ checkOut = NoDate
           \/ guestEmail \in {Undefined, ""} \/ guestName \in {Undefined, ""}
        THEN MsgRequired
        ELSE IF checkOut <= checkIn
        THEN MsgOrder
        ELSE IF RangeHasConflict(checkIn, checkOut)
        THEN MsgRangeBooked
        ELSE NoError

\* variant: the discount is taken off one night's rate, not off the total
calculateTotalPriceFlat(nights) ==
    LET totalPrice == nights * PriceOf[apartment]
    IN  IF appliedCoupon # NoCoupon
        THEN totalPrice
             - (PriceOf[apartment] * appliedCoupon.discount_percent) \div 100
        ELSE totalPrice

\* variant: the discount is added to the total
calculateTotalPriceSurcharge(nights) ==
    LET totalPrice == nights * PriceOf[apartment]
    IN  IF appliedCoupon # NoCoupon
        THEN totalPrice + (totalPrice * appliedCoupon.discount_percent) \div 100
        ELSE totalPrice

\* Amounts of money are counted in hundredths of a cent.  With prices in
\* whole cents and percents in whole numbers every product below is a whole
\* number of them, and the quotient by 100 is exact.
calculateTotalPrice(nights) ==
    LET totalPrice == nights * PriceOf[apartment]
    IN  IF appliedCoupon # NoCoupon
        THEN totalPrice - (totalPrice * appliedCoupon.discount_percent) \div 100
        ELSE totalPrice

\* Math.round(totalPrice * 100), the cents the double can round to.  The
\* doubles of calculateTotalPrice carry the decimal amount only to within a
\* rounding error far below a hundredth of a cent: off a half cent the
\* nearest integer is the exact one, at an exact half cent the error decides
\* (1.15 a night, one night, 10 percent: 103.49999999999999, rounded to 103).
MathRound(totalPrice) ==
    LET whole == totalPrice \div 100
        rest == totalPrice % 100
    IN  IF rest < 50 THEN {whole}
        ELSE IF rest > 50 THEN {whole + 1}
        ELSE {whole, whole + 1}

\* variant: the request never carries the coupon
CheckoutParamsWithoutCoupon(priceInCents) ==
    [checkIn |-> bookingDetails.checkIn,
     checkOut |-> bookingDetails.checkOut,
     guestEmail |-> bookingDetails.guestEmail,
     guestName |-> bookingDetails.guestName,
     numberOfNights |-> differenceInDays(bookingDetails.checkOut,
                                         bookingDetails.checkIn),
     unit_amount |-> priceInCents,
     price |-> calculateTotalPrice(differenceInDays(bookingDetails.checkOut,
                                                    bookingDetails.checkIn)),
     coupon |-> NoCoupon]

\* the body of the checkout request
CheckoutParams(priceInCents) ==
    [checkIn |-> bookingDetails.checkIn,
     checkOut |-> bookingDetails.checkOut,
     guestEmail |-> bookingDetails.guestEmail,
     guestName |-> bookingDetails.guestName,
     numberOfNights |-> differenceInDays(bookingDetails.checkOut,
                                         bookingDetails.checkIn),
     unit_amount |-> priceInCents,
     price |-> calculateTotalPrice(differenceInDays(bookingDetails.checkOut,
                                                    bookingDetails.checkIn)),
     coupon |-> appliedCoupon]

\* variant: the submit button is not disabled while isLoading
handleSubmitWhileLoading ==
    /\ location = NoUrl
    /\ IF SubmitError # NoError
       THEN error' = SubmitError /\ isLoading' = FALSE /\ UNCHANGED handoff
       ELSE /\ error' = NoError
            /\ isLoading' = TRUE
            /\ \E priceInCents \in
                      MathRound(calculateTotalPrice(
                          differenceInDays(bookingDetails.checkOut,
                                           bookingDetails.checkIn))) :
                   handoff' = Append(handoff, CheckoutParams(priceInCents))
    /\ UNCHANGED <<calendarVars, policy, bookingDetails, bookedDates, fetchPending, location,
                   couponVars, storeRows,
                   fetchRequests, bookedFor, apartment, peer>>

\* the submit button (disabled while isLoading), up to the await of fetch
handleSubmit ==
    /\ location = NoUrl
    /\ ~isLoading
    /\ IF SubmitError # NoError
       THEN error' = SubmitError /\ isLoading' = FALSE /\ UNCHANGED handoff
       ELSE /\ error' = NoError
            /\ isLoading' = TRUE
            /\ \E priceInCents \in
                      MathRound(calculateTotalPrice(
                          differenceInDays(bookingDetails.checkOut,
                                           bookingDetails.checkIn))) :
                   handoff' = Append(handoff, CheckoutParams(priceInCents))
    /\ UNCHANGED <<calendarVars, policy, bookingDetails, bookedDates, fetchPending, location,
                   couponVars, storeRows,
                   fetchRequests, bookedFor, apartment, peer>>

\* variant: a failed checkout clears the dates of the draft
handleSubmitAnswerResets(answer) ==
    /\ handoff # <<>>
    /\ handoff' = Tail(handoff)
    /\ isLoading' = FALSE
    /\ CASE answer = "rejected" -> error' = MsgThrown /\ UNCHANGED location
         [] answer = "not ok" -> error' = MsgCheckout /\ UNCHANGED location
         [] answer = "not json" -> error' = MsgThrown /\ UNCHANGED location
         [] answer = "no url" -> location' = Undefined /\ UNCHANGED error
         [] answer = "url" -> location' = "checkout" /\ UNCHANGED error
    /\ bookingDetails' =
          IF answer \in {"rejected", "not ok", "not json"}
          THEN [bookingDetails EXCEPT !.checkIn = NoDate, !.checkOut = NoDate]
          ELSE bookingDetails
    /\ UNCHANGED <<calendarVars, policy, bookedDates, fetchPending,
                   couponVars, storeRows,
                   fetchRequests, bookedFor, apartment, peer>>

\* variant: isLoading is reset on the way to the checkout only, not in finally
handleSubmitAnswerNoFinally(answer) ==
    /\ handoff # <<>>
    /\ handoff' = Tail(handoff)
    /\ isLoading' = (answer \in {"rejected", "not ok", "not json"})
    /\ CASE answer = "rejected" -> error' = MsgThrown /\ UNCHANGED location
         [] answer = "not ok" -> error' = MsgCheckout /\ UNCHANGED location
         [] answer = "not json" -> error' = MsgThrown /\ UNCHANGED location
         [] answer = "no url" -> location' = Undefined /\ UNCHANGED error
         [] answer = "url" -> location' = "checkout" /\ UNCHANGED error
    /\ UNCHANGED <<calendarVars, policy, bookingDetails, bookedDates, fetchPending,
                   couponVars, storeRows,
                   fetchRequests, bookedFor, apartment, peer>>

\* variant: the answer is acted upon only if the draft as it is now still
\* passes the validation
handleSubmitAnswerRevalidates(answer) ==
    /\ handoff # <<>>
    /\ handoff' = Tail(handoff)
    /\ isLoading' = FALSE
    /\ IF SubmitError # NoError
       THEN error' = SubmitError /\ UNCHANGED location
       ELSE CASE answer = "rejected" -> error' = MsgThrown /\ UNCHANGED location
              [] answer = "not ok" -> error' = MsgCheckout /\ UNCHANGED location
              [] answer = "not json" -> error' = MsgThrown /\ UNCHANGED location
              [] answer = "no url" -> location' = Undefined /\ UNCHANGED error
              [] answer = "url" -> location' = "checkout" /\ UNCHANGED error
    /\ UNCHANGED <<calendarVars, policy, bookingDetails, bookedDates, fetchPending,
                   couponVars, storeRows,
                   fetchRequests, bookedFor, apartment, peer>>

\* the rest of handleSubmit, once the checkout endpoint has answered
handleSubmitAnswer(answer) ==
    /\ handoff # <<>>
    /\ handoff' = Tail(handoff)
    /\ isLoading' = FALSE
    /\ CASE answer = "rejected" -> error' = MsgThrown /\ UNCHANGED location
         [] answer = "not ok" -> error' = MsgCheckout /\ UNCHANGED location
         [] answer = "not json" -> error' = MsgThrown /\ UNCHANGED location
         [] answer = "no url" -> location' = Undefined /\ UNCHANGED error
         [] answer = "url" -> location' = "checkout" /\ UNCHANGED error
    /\ UNCHANGED <<calendarVars, policy, bookingDetails, bookedDates, fetchPending,
                   couponVars, storeRows,
                   fetchRequests, bookedFor, apartment, peer>>

\* ------------------------------------------------------------- coupons
\* onChange of the coupon field
setCouponCode(text) ==
    /\ location = NoUrl
    /\ couponCode' = text
    /\ UNCHANGED <<calendarVars, policy, bookingDetails, isLoading, error, bookedDates,
                   fetchPending, handoff, location, appliedCoupon,
                   isValidatingCoupon, couponLookup, storeRows,
                   fetchRequests, bookedFor, apartment, peer>>

\* variant: the apply button is not disabled while isValidatingCoupon
handleApplyCouponWhileValidating ==
    /\ location = NoUrl
    /\ IF trim(couponCode) = ""
       THEN /\ error' = MsgEnterCoupon
            /\ UNCHANGED <<isValidatingCoupon, couponLookup>>
       ELSE /\ isValidatingCoupon' = TRUE
            /\ error' = NoError
            /\ couponLookup' = Append(couponLookup, trim(couponCode))
    /\ UNCHANGED <<calendarVars, policy, bookingDetails, isLoading, bookedDates, fetchPending,
                   handoff, location, couponCode, appliedCoupon, storeRows,
                   fetchRequests, bookedFor, apartment, peer>>

\* the apply button (disabled while isValidatingCoupon), up to the await
handleApplyCoupon ==
    /\ location = NoUrl
    /\ ~isValidatingCoupon
    /\ IF trim(couponCode) = ""
       THEN /\ error' = MsgEnterCoupon
            /\ UNCHANGED <<isValidatingCoupon, couponLookup>>
       ELSE /\ isValidatingCoupon' = TRUE
            /\ error' = NoError
            /\ couponLookup' = Append(couponLookup, trim(couponCode))
    /\ UNCHANGED <<calendarVars, policy, bookingDetails, isLoading, bookedDates, fetchPending,
                   handoff, location, couponCode, appliedCoupon, storeRows,
                   fetchRequests, bookedFor, apartment, peer>>

\* what the store can answer the query for a code with: the active,
\* unexpired rows of that code, or nothing when the request fails
CouponAnswers(code) ==
    {[rows |-> {c \in Coupons : c.code = code}, failed |-> FALSE],
     [rows |-> {}, failed |-> TRUE]}

\* .single(): the row when exactly one came back, an error otherwise
single(answer) ==
    IF ~answer.failed /\ Cardinality(answer.rows) = 1
    THEN [data |-> CHOOSE c \in answer.rows : TRUE, error |-> FALSE]
    ELSE [data |-> NoCoupon, error |-> TRUE]

\* variant: the discount found is added to the one already applied
validateCouponAnswerStacking(answer) ==
    /\ couponLookup # <<>>
    /\ answer \in CouponAnswers(Head(couponLookup))
    /\ couponLookup' = Tail(couponLookup)
    /\ isValidatingCoupon' = FALSE
    /\ IF single(answer).error
       THEN error' = MsgCouponFailed /\ appliedCoupon' = NoCoupon
       ELSE IF single(answer).data # NoCoupon
       THEN /\ appliedCoupon' =
                  [single(answer).data EXCEPT
                       !.discount_percent = @ + appliedCoupon.discount_percent]
            /\ UNCHANGED error
       ELSE error' = MsgCouponInvalid /\ appliedCoupon' = NoCoupon
    /\ UNCHANGED <<calendarVars, policy, bookingDetails, isLoading, bookedDates, fetchPending,
                   handoff, location, couponCode, storeRows,
                   fetchRequests, bookedFor, apartment, peer>>

\* the rest of validateCoupon, once the store has answered
validateCouponAnswer(answer) ==
    /\ couponLookup # <<>>
    /\ answer \in CouponAnswers(Head(couponLookup))
    /\ couponLookup' = Tail(couponLookup)
    /\ isValidatingCoupon' = FALSE
    /\ IF single(answer).error
       THEN error' = MsgCouponFailed /\ appliedCoupon' = NoCoupon
       ELSE IF single(answer).data # NoCoupon
       THEN appliedCoupon' = single(answer).data /\ UNCHANGED error
       ELSE error' = MsgCouponInvalid /\ appliedCoupon' = NoCoupon
    /\ UNCHANGED <<calendarVars, policy, bookingDetails, isLoading, bookedDates, fetchPending,
                   handoff, location, couponCode, storeRows,
                   fetchRequests, bookedFor, apartment, peer>>

\* ------------------------------------------------------------- price summary
\* the nights and the total the dialog renders
numberOfNights ==
    IF bookingDetails.checkIn # NoDate /\ bookingDetails.checkOut # NoDate
    THEN differenceInDays(bookingDetails.checkOut, bookingDetails.checkIn)
    ELSE 0

totalPrice == calculateTotalPrice(numberOfNights)

\* ------------------------------------------------------------- specifications
\* The dialog from its mount: the load, date selection, the guest fields and
\* submission.
Init ==
    /\ InitAlone
    /\ InitForm
    /\ storeRows = <<>>

Next ==
    \/ \E data \in AnswerLists : fetchBookedDates(data)
    \/ fetchBookedDatesError
    \/ \E type \in {"checkIn", "checkOut"}, date \in Dates \cup {NoDate} :
           handleDateChange(type, date)
    \/ \E text \in GuestTexts : setGuestName(text)
    \/ \E text \in GuestTexts : setGuestEmail(text)
    \/ handleSubmit
    \/ \E answer \in HandoffAnswers : handleSubmitAnswer(answer)

Spec == Init /\ [][Next]_vars

\* Date selection alone, around the load.  The draft holds whatever guest
\* name and coupon were entered before; neither changes meanwhile.
InitSelect ==
    /\ InitAlone
    /\ InitHooks
    /\ appliedCoupon \in {NoCoupon} \cup Coupons
    /\ storeRows = <<>>

NextSelect ==
    \/ \E data \in AnswerLists : fetchBookedDates(data)
    \/ fetchBookedDatesError
    \/ \E type \in {"checkIn", "checkOut"}, date \in Dates \cup {NoDate} :
           handleDateChange(type, date)
    \/ \E text \in GuestTexts : setGuestName(text)

SpecSelect == InitSelect /\ [][NextSelect]_vars

\* The load alone, answered with the rows drawn beforehand.
InitDateSet ==
    /\ InitAlone
    /\ InitForm
    /\ storeRows \in IntervalLists

NextDateSet ==
    \/ fetchBookedDates(storeRows)
    \/ fetchBookedDatesError

SpecDateSet == InitDateSet /\ [][NextDateSet]_vars

\* The dialog kept open while other apartments are chosen: every choice
\* starts a load, and the loads answer in any order.
InitApartments ==
    /\ InitAlone
    /\ InitForm
    /\ storeRows = <<>>

NextApartments ==
    \/ \E a \in Apartments : selectApartment(a)
    \/ \E data \in AnswerLists : fetchBookedDates(data)
    \/ fetchBookedDatesError
    \/ \E type \in {"checkIn", "checkOut"}, date \in Dates \cup {NoDate} :
           handleDateChange(type, date)

SpecApartments == InitApartments /\ [][NextApartments]_vars

\* ------------------------------------------------------------- two browsers
\* the state of a dialog: its hooks, its prop and its requests in flight
SessionState ==
    [bookingDetails |-> bookingDetails, isLoading |-> isLoading,
     error |-> error, bookedDates |-> bookedDates,
     fetchPending |-> fetchPending, handoff |-> handoff,
     location |-> location, couponCode |-> couponCode,
     appliedCoupon |-> appliedCoupon,
     isValidatingCoupon |-> isValidatingCoupon,
     couponLookup |-> couponLookup, fetchRequests |-> fetchRequests,
     bookedFor |-> bookedFor, apartment |-> apartment]

\* a dialog as mounted on the first apartment
MountedSession ==
    [bookingDetails |-> InitialDetails, isLoading |-> FALSE,
     error |-> NoError, bookedDates |-> {},
     fetchPending |-> TRUE, handoff |-> <<>>,
     location |-> NoUrl, couponCode |-> "",
     appliedCoupon |-> NoCoupon,
     isValidatingCoupon |-> FALSE,
     couponLookup |-> <<>>, fetchRequests |-> <<"A">>,
     bookedFor |-> NoApartment, apartment |-> "A"]

\* the next event is the other browser's: the model follows that dialog and
\* puts this one at rest.  The two pages share nothing but the store.
switchSession ==
    /\ peer # NoPeer
    /\ peer' = SessionState
    /\ bookingDetails' = peer.bookingDetails
    /\ isLoading' = peer.isLoading
    /\ error' = peer.error
    /\ bookedDates' = peer.bookedDates
    /\ fetchPending' = peer.fetchPending
    /\ handoff' = peer.handoff
    /\ location' = peer.location
    /\ couponCode' = peer.couponCode
    /\ appliedCoupon' = peer.appliedCoupon
    /\ isValidatingCoupon' = peer.isValidatingCoupon
    /\ couponLookup' = peer.couponLookup
    /\ fetchRequests' = peer.fetchRequests
    /\ bookedFor' = peer.bookedFor
    /\ apartment' = peer.apartment
    /\ UNCHANGED <<calendarVars, policy, storeRows>>

\* Two browsers on the same apartment.  The store holds the rows drawn
\* beforehand and answers both loads with them: nothing here writes a booking.
InitRace ==
    /\ apartment = "A"
    /\ peer = MountedSession
    /\ InitForm
    /\ storeRows \in {data \in AnswerLists :
                         \A i \in 1 .. Len(data) : data[i].check_in = data[i].check_out}

NextRace ==
    \/ switchSession
    \/ fetchBookedDates(storeRows)
    \/ \E type \in {"checkIn", "checkOut"}, day \in Days :
           handleDateChange(type, parseISO(day))
    \/ setGuestName("guest")
    \/ setGuestEmail("guest")
    \/ handleSubmit

SpecRace == InitRace /\ [][NextRace]_vars

\* ------------------------------------------------------------- coupon session
\* every answer the store can give a coupon query
AllCouponAnswers ==
    UNION {CouponAnswers(trim(text)) : text \in CouponTexts \cup PriceTexts}

\* The dialog of the coupon variant from its mount, on either apartment: the
\* load, the dates (chosen at midnight), the guest fields, the coupon field
\* and its button, and submission up to the request.
InitCoupon ==
    /\ apartment \in Apartments
    /\ peer = NoPeer
    /\ InitForm
    /\ storeRows = <<>>

NextCoupon ==
    \/ \E data \in AnswerLists : fetchBookedDates(data)
    \/ fetchBookedDatesError
    \/ \E type \in {"checkIn", "checkOut"}, day \in Days :
           handleDateChange(type, parseISO(day))
    \/ setGuestName("guest")
    \/ setGuestEmail("guest")
    \/ \E text \in CouponTexts : setCouponCode(text)
    \/ handleApplyCoupon
    \/ \E answer \in AllCouponAnswers : validateCouponAnswer(answer)
    \/ handleSubmit

SpecCoupon == InitCoupon /\ [][NextCoupon]_vars

\* The coupon session with the answers of the checkout endpoint: whatever is
\* done in the dialog while a checkout request is out, and after it failed.
NextFlight ==
    \/ NextCoupon
    \/ \E answer \in HandoffAnswers : handleSubmitAnswer(answer)

SpecFlight == InitCoupon /\ [][NextFlight]_vars

\* The dialog on the first apartment with collaborators that answer: the
\* store answers every load and every coupon query, the checkout endpoint
\* every request, each with a result or a failure.
InitLive ==
    /\ InitAlone
    /\ InitForm
    /\ storeRows = <<>>

NextLive ==
    \/ \E data \in AnswerLists : fetchBookedDates(data)
    \/ fetchBookedDatesError
    \/ \E type \in {"checkIn", "checkOut"}, day \in Days :
           handleDateChange(type, parseISO(day))
    \/ setGuestName("guest")
    \/ setGuestEmail("guest")
    \/ \E text \in {"SAVE10", "EXPIRED99"} : setCouponCode(text)
    \/ handleApplyCoupon
    \/ \E answer \in AllCouponAnswers : validateCouponAnswer(answer)
    \/ handleSubmit
    \/ \E answer \in HandoffAnswers : handleSubmitAnswer(answer)

SpecLive ==
    /\ InitLive
    /\ [][NextLive]_vars
    /\ WF_vars(\E data \in AnswerLists : fetchBookedDates(data))
    /\ WF_vars(\E answer \in AllCouponAnswers : validateCouponAnswer(answer))
    /\ WF_vars(\E answer \in HandoffAnswers : handleSubmitAnswer(answer))

\* ------------------------------------------------------------- price
\* The price summary, followed while the dates and the coupon change: the
\* load, the dates (chosen at midnight), the coupon field and its button.
InitPrice ==
    /\ apartment \in Apartments
    /\ peer = NoPeer
    /\ InitForm
    /\ storeRows = <<>>

NextPrice ==
    \/ \E data \in AnswerLists : fetchBookedDates(data)
    \/ \E type \in {"checkIn", "checkOut"}, day \in Days :
           handleDateChange(type, parseISO(day))
    \/ \E text \in PriceTexts : setCouponCode(text)
    \/ handleApplyCoupon
    \/ \E answer \in AllCouponAnswers : validateCouponAnswer(answer)

SpecPrice == InitPrice /\ [][NextPrice]_vars

\* ------------------------------------------------------------- the calendar
\* BookingCalendar, a component of its own: the booked days come as a prop,
\* and a day clicked goes to the parent through onDateSelect.
MonthOf(day) == day \div DaysPerMonth

Months == {MonthOf(day) : day \in Days}

\* eachDayOfInterval from startOfMonth to endOfMonth of the month shown
allDays == {day \in Days : MonthOf(day) = currentMonth}

\* isPast(date) as evaluated in the render on screen
isPast(date) == date < today

\* everything of the dialog, which the calendar does not touch
formVars ==
    <<policy, bookingDetails, isLoading, error, bookedDates, fetchPending,
      handoff, location, couponVars, storeRows, fetchRequests, bookedFor,
      apartment, peer>>

\* the first render of the calendar, the parent holding any set of booked days
InitCalendar ==
    /\ policy \in IntervalPolicies
    /\ bookingDetails = InitialDetails
    /\ isLoading = FALSE
    /\ error = NoError
    /\ bookedDates \in {{parseISO(day) : day \in booked} : booked \in SUBSET Days}
    /\ fetchPending = FALSE
    /\ fetchRequests = <<>>
    /\ bookedFor = "A"
    /\ handoff = <<>>
    /\ location = NoUrl
    /\ couponCode = ""
    /\ isValidatingCoupon = FALSE
    /\ couponLookup = <<>>
    /\ appliedCoupon = NoCoupon
    /\ storeRows = <<>>
    /\ apartment = "A"
    /\ peer = NoPeer
    /\ now \in Dates
    /\ today = now
    /\ currentMonth = MonthOf(DayOf(now))
    /\ rulesAccepted = FALSE
    /\ showRules = FALSE
    /\ showError = FALSE
    /\ onDateSelect = <<>>

\* the clock goes on; nothing is rendered for that
tick ==
    /\ now + 1 \in Dates
    /\ now' = now + 1
    /\ UNCHANGED <<formVars, currentMonth, rulesAccepted, showRules, showError,
                   today, onDateSelect>>

nextMonth ==
    /\ ~showRules
    /\ currentMonth + 1 \in Months
    /\ currentMonth' = currentMonth + 1
    /\ today' = now
    /\ UNCHANGED <<formVars, rulesAccepted, showRules, showError, now,
                   onDateSelect>>

prevMonth ==
    /\ ~showRules
    /\ currentMonth - 1 \in Months
    /\ currentMonth' = currentMonth - 1
    /\ today' = now
    /\ UNCHANGED <<formVars, rulesAccepted, showRules, showError, now,
                   onDateSelect>>

\* the 'view rules' button, and the two buttons that close the rules
setShowRules(show) ==
    /\ show # showRules
    /\ showRules' = show
    /\ today' = now
    /\ UNCHANGED <<formVars, currentMonth, rulesAccepted, showError, now,
                   onDateSelect>>

\* onChange of the checkbox
handleRulesAcceptanceChange(checked) ==
    /\ ~showRules
    /\ checked # rulesAccepted
    /\ rulesAccepted' = checked
    /\ showError' = FALSE
    /\ today' = now
    /\ UNCHANGED <<formVars, currentMonth, showRules, now, onDateSelect>>

\* the parent may or may not render the calendar anew for the date it is given
handleDateSelect(date) ==
    IF ~rulesAccepted
    THEN /\ showError' = TRUE
         /\ today' = IF showError THEN today ELSE now
         /\ UNCHANGED onDateSelect
    ELSE /\ Len(onDateSelect) < MaxSelections
         /\ onDateSelect' = Append(onDateSelect, date)
         /\ today' \in {today, now}
         /\ UNCHANGED showError

\* a click on the button of a day of the month shown; the button of a booked
\* or past day is disabled
dayButton(day) ==
    /\ ~showRules
    /\ day \in allDays
    /\ LET isBooked == isDateBooked(parseISO(day))
           isPastDate == isPast(parseISO(day)) /\ ~isSameDay(parseISO(day), today)
       IN  IF isBooked \/ isPastDate
           THEN UNCHANGED <<showError, today, onDateSelect>>
           ELSE handleDateSelect(parseISO(day))
    /\ UNCHANGED <<formVars, currentMonth, rulesAccepted, showRules, now>>

NextCalendar ==
    \/ tick
    \/ nextMonth
    \/ prevMonth
    \/ \E show \in BOOLEAN : setShowRules(show)
    \/ \E checked \in BOOLEAN : handleRulesAcceptanceChange(checked)
    \/ \E day \in Days : dayButton(day)

SpecCalendar == InitCalendar /\ [][NextCalendar]_vars

\* ------------------------------------------------------------- claims
\* the days the DateSet holds
DateSetDays == {DayOf(bookedDate) : bookedDate \in bookedDates}

\* the inclusive day sequence from start to end
SpanDays(start, end) == {day \in Days : DayOf(start) <= day /\ day <= DayOf(end)}

SpanIsBooked(start, end) == SpanDays(start, end) \cap DateSetDays # {}

\* this step issues a checkout request
Issued == handoff' # handoff /\ handoff' # <<>>

RequiredMissing ==
    \/ bookingDetails.checkIn = NoDate
    \/ bookingDetails.checkOut = NoDate
    \/ bookingDetails.guestName \in {Undefined, ""}
    \/ bookingDetails.guestEmail \in {Undefined, ""}

\* C1: handleSubmit issues a checkout request only if no day of the inclusive
\* span checkIn..checkOut of the draft is in the DateSet as it stands at that
\* moment, whenever the DateSet was loaded.
C1_NoConflictAtHandoff ==
    [][Issued => ~SpanIsBooked(bookingDetails.checkIn, bookingDetails.checkOut)]_vars

\* a request is in flight for dates chosen around a loaded, non-empty DateSet
C1_Witness ==
    /\ handoff # <<>>
    /\ bookedDates # {}
    /\ ~SpanIsBooked(handoff[1].checkIn, handoff[1].checkOut)

\* C2: a checkout request is issued only with checkOut strictly after
\* checkIn; a submission with all fields present and checkOut at or before
\* checkIn ends not loading, with the order error and no request.
C2_OrderAtHandoff ==
    [][/\ Issued => /\ bookingDetails.checkIn # NoDate
                    /\ bookingDetails.checkOut > bookingDetails.checkIn
       /\ (handleSubmit /\ ~RequiredMissing
              /\ bookingDetails.checkOut <= bookingDetails.checkIn)
           => (error' = MsgOrder /\ ~isLoading' /\ handoff' = <<>>)]_vars

\* a submission of equal or reversed dates has failed
C2_Witness ==
    /\ error = MsgOrder
    /\ ~RequiredMissing
    /\ bookingDetails.checkOut <= bookingDetails.checkIn
    /\ ~isLoading
    /\ handoff = <<>>

\* C3: submitting while checkIn, checkOut, guestName or guestEmail is unset
\* or empty gives the required-fields error and issues no checkout request.
C3_RequiredFields ==
    [][(handleSubmit /\ RequiredMissing)
       => (error' = MsgRequired /\ ~isLoading' /\ handoff' = <<>>)]_vars

\* scenario D: submitted with checkIn set and checkOut unset
C3_Witness ==
    /\ error = MsgRequired
    /\ bookingDetails.checkIn # NoDate
    /\ bookingDetails.checkOut = NoDate
    /\ bookingDetails.guestName = "guest"
    /\ bookingDetails.guestEmail = "guest"
    /\ handoff = <<>>

\* every row of the answer has its check-out on or after its check-in
WellFormed(data) ==
    \A i \in 1 .. Len(data) : data[i].check_in <= data[i].check_out

\* the load has completed and built the DateSet
Loaded == ~fetchPending /\ error # MsgFetch

\* some row of the answer covers the day, both ends included
Covered(data, day) ==
    \E i \in 1 .. Len(data) : data[i].check_in <= day /\ day <= data[i].check_out

\* C4: on the DateSet built from a list of booked intervals, isDateBooked(d)
\* is true iff the day of d lies in the inclusive span check_in..check_out
\* of some interval of the list, for every instant d.
C4_IsDateBookedInclusive ==
    (Loaded /\ WellFormed(storeRows))
    => \A d \in Dates : isDateBooked(d) <=> Covered(storeRows, DayOf(d))

\* two intervals loaded, and a later instant of a check-out day is booked
C4_Witness ==
    /\ Loaded
    /\ Len(storeRows) = 2
    /\ storeRows[1].check_in < storeRows[1].check_out
    /\ storeRows[2].check_in > storeRows[1].check_out
    /\ isDateBooked(parseISO(storeRows[1].check_out) + 1)
    /\ isDateBooked(parseISO(storeRows[1].check_in))

\* some row covers the day, its check-out day excluded
CoveredHalfOpen(data, day) ==
    \E i \in 1 .. Len(data) : data[i].check_in <= day /\ day < data[i].check_out

\* C5 as stated: after a completed load a day is in the DateSet iff it lies
\* in the half-open range [check_in, check_out) of some interval.
C5_HalfOpenDateSet ==
    (Loaded /\ WellFormed(storeRows))
    => \A day \in Days : (day \in DateSetDays) <=> CoveredHalfOpen(storeRows, day)

\* C5 amended: after a completed load the DateSet is exactly the midnights of
\* the days in the inclusive range [check_in, check_out] of some interval.
C5_InclusiveDateSet ==
    (Loaded /\ WellFormed(storeRows))
    => bookedDates = {parseISO(day) : day \in {x \in Days : Covered(storeRows, x)}}

\* a check-out day no other row covers is in the DateSet
C5_Witness ==
    /\ Loaded
    /\ WellFormed(storeRows)
    /\ \E i \in 1 .. Len(storeRows) :
           /\ storeRows[i].check_in < storeRows[i].check_out
           /\ ~CoveredHalfOpen(storeRows, storeRows[i].check_out)
           /\ parseISO(storeRows[i].check_out) \in bookedDates

\* C6: the range check of handleDateChange and handleSubmit is false for
\* checkOut > checkIn when no day of the inclusive span is booked, and true
\* when a day strictly inside the span is booked, whatever the endpoints.
C6_RangeConflict ==
    \A checkIn \in Dates, checkOut \in Dates :
        checkOut > checkIn
        => /\ ~SpanIsBooked(checkIn, checkOut) => ~RangeHasConflict(checkIn, checkOut)
           /\ (\E day \in DateSetDays : DayOf(checkIn) < day /\ day < DayOf(checkOut))
              => RangeHasConflict(checkIn, checkOut)

\* a range was refused though only a day strictly inside it is booked
C6_Witness ==
    /\ error = MsgRangeBooked
    /\ \E checkIn \in Dates, checkOut \in Dates :
           /\ checkOut > checkIn
           /\ ~isDateBooked(checkIn)
           /\ ~isDateBooked(checkOut)
           /\ RangeHasConflict(checkIn, checkOut)

\* everything of the dialog but the message shown
exceptError ==
    <<policy, bookingDetails, isLoading, bookedDates, fetchPending, handoff,
      location, couponCode, appliedCoupon, isValidatingCoupon, couponLookup>>

\* C7: choosing a check-in whose day is in the DateSet changes nothing of the
\* draft (dates, guest fields, applied coupon) and sets the error to
\* 'This date is already booked'.
C7_BookedCheckInRejected ==
    [][\A date \in Dates :
          (DayOf(date) \in DateSetDays /\ handleDateChange("checkIn", date))
          => (error' = MsgDateBooked /\ UNCHANGED exceptError)]_vars

\* a booked date was refused while the draft held dates and a coupon
C7_Witness ==
    /\ error = MsgDateBooked
    /\ bookingDetails.checkIn # NoDate
    /\ bookingDetails.checkOut # NoDate
    /\ bookingDetails.guestName = "guest"
    /\ appliedCoupon # NoCoupon

\* the endpoints the draft would have after the choice
ChosenCheckIn(type, date) == IF type = "checkIn" THEN date ELSE bookingDetails.checkIn

ChosenCheckOut(type, date) == IF type = "checkOut" THEN date ELSE bookingDetails.checkOut

\* C8: choosing a check-out or a check-in that is not booked itself, such
\* that the inclusive range checkIn..checkOut then holds a booked day, is
\* refused and leaves the draft as it was.
C8_ConflictingRangeRejected ==
    [][\A type \in {"checkIn", "checkOut"}, date \in Dates :
          (/\ DayOf(date) \notin DateSetDays
           /\ ChosenCheckIn(type, date) # NoDate
           /\ ChosenCheckOut(type, date) # NoDate
           /\ ChosenCheckIn(type, date) < ChosenCheckOut(type, date)
           /\ SpanIsBooked(ChosenCheckIn(type, date), ChosenCheckOut(type, date))
           /\ handleDateChange(type, date))
          => (error' = MsgRangeBooked /\ UNCHANGED exceptError)]_vars

\* a range was refused and the draft still holds its free range; once the
\* load is over only a date choice leaves this message on a free range
C8_Witness ==
    /\ error = MsgRangeBooked
    /\ ~fetchPending
    /\ bookingDetails.checkIn # NoDate
    /\ bookingDetails.checkOut > bookingDetails.checkIn
    /\ ~SpanIsBooked(bookingDetails.checkIn, bookingDetails.checkOut)
    /\ bookedDates # {}

\* C9: choosing an unbooked check-in that is not strictly before the stored
\* check-out stores the check-in and unsets the check-out.
C9_CheckInClearsCheckOut ==
    [][\A date \in Dates :
          (/\ DayOf(date) \notin DateSetDays
           /\ bookingDetails.checkOut # NoDate
           /\ date >= bookingDetails.checkOut
           /\ handleDateChange("checkIn", date))
          => /\ bookingDetails' = [bookingDetails EXCEPT !.checkIn = date,
                                                          !.checkOut = NoDate]
             /\ error' = NoError]_vars

\* the check-out a request in flight was sent with has since been unset:
\* nothing but this rule unsets a stored check-out
C9_Witness ==
    /\ handoff # <<>>
    /\ bookingDetails.checkOut = NoDate
    /\ bookingDetails.checkIn >= handoff[1].checkOut

\* the check-out step: an unbooked check-out strictly after the stored
\* check-in, with no booked day in the span, is stored and clears the error
CheckOutAccepted ==
    \A date \in Dates :
        (/\ bookingDetails.checkIn # NoDate
         /\ date > bookingDetails.checkIn
         /\ ~SpanIsBooked(bookingDetails.checkIn, date)
         /\ handleDateChange("checkOut", date))
        => /\ bookingDetails' = [bookingDetails EXCEPT !.checkOut = date]
           /\ error' = NoError

\* C10 as stated: an unbooked check-in is stored, and an unbooked check-out
\* strictly after it with no booked day in the span is then stored too, the
\* error cleared.
C10_SelectionSucceeds ==
    [][/\ \A date \in Dates :
             (DayOf(date) \notin DateSetDays /\ handleDateChange("checkIn", date))
             => (bookingDetails'.checkIn = date /\ error' = NoError)
       /\ CheckOutAccepted]_vars

\* C10 amended: the check-in is stored provided no booked day lies between it
\* and a later check-out the draft still holds.
C10_SelectionSucceedsFreeSpan ==
    [][/\ \A date \in Dates :
             (/\ DayOf(date) \notin DateSetDays
              /\ \/ bookingDetails.checkOut = NoDate
                 \/ date >= bookingDetails.checkOut
                 \/ ~SpanIsBooked(date, bookingDetails.checkOut)
              /\ handleDateChange("checkIn", date))
             => (bookingDetails'.checkIn = date /\ error' = NoError)
       /\ CheckOutAccepted]_vars

\* scenario A: the load has answered with booked days, and a free range
\* after them is stored with no error
C10_Witness ==
    /\ ~fetchPending
    /\ bookedDates # {}
    /\ error = NoError
    /\ bookingDetails.checkIn # NoDate
    /\ bookingDetails.checkOut > bookingDetails.checkIn
    /\ DayOf(bookingDetails.checkOut) > DayOf(bookingDetails.checkIn)
    /\ \A day \in DateSetDays : day < DayOf(bookingDetails.checkIn)

\* the load for the dialog's apartment has answered and built the DateSet
LoadCompleted == ~fetchPending /\ bookedFor = apartment

\* C11: no checkout request is issued while the load of the booked intervals
\* is still pending or after it has failed.
C11_NoHandoffBeforeLoad == [][Issued => LoadCompleted]_vars

\* C12: an answer to a load issued for another apartment than the one the
\* dialog is now on is discarded, so that the DateSet is always the initial
\* empty one or built from an answer issued for the current apartment.
C12_StaleAnswerDiscarded ==
    [][/\ bookedFor' # bookedFor => bookedFor' = apartment'
       /\ bookedFor' \in {NoApartment, apartment'}]_vars

\* the inclusive spans of two checkout requests share a day
Overlapping(a, b) ==
    SpanDays(a.checkIn, a.checkOut) \cap SpanDays(b.checkIn, b.checkOut) # {}

\* C13: nothing is written to the store and nothing is locked between the
\* check and the handoff: while the other browser has a checkout request out,
\* a submission of a complete draft whose range is free in the DateSet loaded
\* here still issues its own request, also for an overlapping range.
C13_NoReservation ==
    [][/\ storeRows' = storeRows
       /\ (/\ peer # NoPeer
           /\ peer.handoff # <<>>
           /\ ~RequiredMissing
           /\ bookingDetails.checkOut > bookingDetails.checkIn
           /\ ~SpanIsBooked(bookingDetails.checkIn, bookingDetails.checkOut)
           /\ handleSubmit)
          => (Issued /\ peer' = peer)]_vars

\* scenario E: both browsers loaded the same non-empty DateSet, and each has
\* a checkout request out for ranges that share a day
C13_Witness ==
    /\ peer # NoPeer
    /\ LoadCompleted
    /\ ~peer.fetchPending
    /\ peer.bookedFor = apartment
    /\ peer.bookedDates = bookedDates
    /\ bookedDates # {}
    /\ handoff # <<>>
    /\ peer.handoff # <<>>
    /\ Overlapping(handoff[1], peer.handoff[1])

\* the store's answer carries no coupon: no active, unexpired row has the
\* code, or the request failed
NoCouponFound(answer) == answer.failed \/ answer.rows = {}

\* C14: a coupon application that fails (empty code, no active unexpired row
\* for the code, or a failed lookup) leaves the applied coupon, and with it
\* the total, as they were.
C14_FailureKeepsCoupon ==
    [][/\ (handleApplyCoupon /\ trim(couponCode) = "")
          => (appliedCoupon' = appliedCoupon /\ totalPrice' = totalPrice)
       /\ \A answer \in AllCouponAnswers :
             (NoCouponFound(answer) /\ validateCouponAnswer(answer))
             => (appliedCoupon' = appliedCoupon /\ totalPrice' = totalPrice)]_vars

\* C15: when the store answers without an active, unexpired row for the code
\* the message is the invalid-or-expired one, and only when the request
\* itself fails is it the lookup-failed one; either way validateCoupon ends
\* with the lookup over, not validating.
C15_FailuresDistinguished ==
    [][\A answer \in AllCouponAnswers :
          (NoCouponFound(answer) /\ validateCouponAnswer(answer))
          => /\ error' = IF answer.failed THEN MsgCouponFailed ELSE MsgCouponInvalid
             /\ ~isValidatingCoupon']_vars

\* the texts of the coupon field that hold nothing but white space
BlankTexts == {"", " "}

\* C16: applying a code that is empty once trimmed sets the empty-code error,
\* sends no query to the store and leaves the applied coupon and everything
\* else of the dialog as it was.
C16_EmptyCodeRejected ==
    [][(couponCode \in BlankTexts /\ handleApplyCoupon)
       => (error' = MsgEnterCoupon /\ UNCHANGED exceptError)]_vars

\* a code of white space was refused while a coupon was applied and a
\* check-in chosen
C16_Witness ==
    /\ error = MsgEnterCoupon
    /\ couponCode = " "
    /\ couponLookup = <<>>
    /\ appliedCoupon # NoCoupon
    /\ bookingDetails.checkIn # NoDate

\* C17: applying again the code of the coupon already applied leaves that one
\* coupon with its discount percent, and the total is the one after the first
\* application: the undiscounted total less the discount, taken once.
C17_CouponIdempotent ==
    [][\A answer \in AllCouponAnswers :
          (/\ appliedCoupon # NoCoupon
           /\ \E c \in answer.rows : c.code = appliedCoupon.code
           /\ validateCouponAnswer(answer))
          => /\ appliedCoupon' = appliedCoupon
             /\ totalPrice' = totalPrice
             /\ totalPrice' * 100 =
                    numberOfNights * PriceOf[apartment]
                        * (100 - appliedCoupon.discount_percent)]_vars

\* the code of the applied coupon is being looked up a second time, for a
\* stay of at least one night
C17_Witness ==
    /\ appliedCoupon = Save10
    /\ couponLookup = <<"SAVE10">>
    /\ numberOfNights > 0
    /\ totalPrice * 100 = numberOfNights * PriceOf[apartment] * 90

\* the messages of a failed coupon application
CouponErrors == {MsgEnterCoupon, MsgCouponInvalid, MsgCouponFailed}

\* the draft is complete, ordered, and free of booked days
DraftValid ==
    /\ ~RequiredMissing
    /\ bookingDetails.checkOut > bookingDetails.checkIn
    /\ ~SpanIsBooked(bookingDetails.checkIn, bookingDetails.checkOut)

\* after a failed coupon application a date can still be chosen: a check-in
\* while no check-out is stored, a check-out after the stored check-in
DatesStillChosen ==
    /\ \A date \in Dates :
          (/\ DayOf(date) \notin DateSetDays
           /\ bookingDetails.checkOut = NoDate
           /\ handleDateChange("checkIn", date))
          => (bookingDetails'.checkIn = date /\ error' = NoError)
    /\ CheckOutAccepted

\* C18 as stated: with the message of a failed coupon application shown,
\* dates can still be chosen, a valid draft passes the validation of
\* handleSubmit, and submitting it issues the checkout request, priced
\* without any discount.
C18_CouponErrorNeverBlocks ==
    [][(error \in CouponErrors)
       => /\ DatesStillChosen
          /\ DraftValid => SubmitError = NoError
          /\ (DraftValid /\ handleSubmit)
             => /\ Issued
                /\ handoff'[Len(handoff')].price
                      = numberOfNights * PriceOf[apartment]]_vars

\* C18 amended: the request is priced with the discount of the coupon that
\* is applied when the draft is submitted: none after a lookup that found no
\* coupon or failed, the earlier coupon's after an empty code.
C18_CouponErrorNeverBlocksApplied ==
    [][(error \in CouponErrors)
       => /\ DatesStillChosen
          /\ DraftValid => SubmitError = NoError
          /\ error # MsgEnterCoupon => appliedCoupon = NoCoupon
          /\ (DraftValid /\ handleSubmit)
             => /\ Issued
                /\ handoff'[Len(handoff')].price * 100
                      = numberOfNights * PriceOf[apartment]
                            * (100 - appliedCoupon.discount_percent)]_vars

\* a coupon application has just failed on a draft that is ready to submit,
\* an earlier coupon still applied
C18_Witness ==
    /\ error \in CouponErrors
    /\ DraftValid
    /\ ~isLoading
    /\ bookedDates # {}
    /\ appliedCoupon # NoCoupon

\* round-half-up of an amount in hundredths of a cent, to cents
RoundHalfUp(amount) == (amount + 50) \div 100

\* C19: the amount of a checkout request is, in cents, round-half-up of
\* nights * nightly rate * (100 - discount percent) / 100, the nights being
\* the whole days from check-in to check-out and the percent that of the
\* coupon applied at submission, 0 when none.
C19_AmountRoundHalfUp ==
    [][Issued
       => handoff'[Len(handoff')].unit_amount
             = RoundHalfUp(((DayOf(bookingDetails.checkOut)
                                - DayOf(bookingDetails.checkIn))
                            * PriceOf[apartment]
                            * (100 - appliedCoupon.discount_percent)) \div 100)]_vars

\* C20: the total is 0 for 0 nights whatever the rate and the applied coupon,
\* and the price summary shows 0 nights and a total of 0 whenever check-in or
\* check-out is unset.
C20_ZeroNightsZeroTotal ==
    /\ calculateTotalPrice(0) = 0
    /\ numberOfNights = 0 => totalPrice = 0
    /\ (bookingDetails.checkIn = NoDate \/ bookingDetails.checkOut = NoDate)
       => (numberOfNights = 0 /\ totalPrice = 0)

\* a coupon is applied on the cheaper apartment while only the check-in is
\* chosen
C20_Witness ==
    /\ apartment = "B"
    /\ appliedCoupon = Save10
    /\ bookingDetails.checkIn # NoDate
    /\ bookingDetails.checkOut = NoDate
    /\ totalPrice = 0

\* C21: for nights >= 0 the total is never negative, does not grow when the
\* discount percent grows with nights and rate fixed, and does not shrink
\* when the nights grow with rate and coupon fixed.
C21_TotalMonotone ==
    [][(numberOfNights >= 0 /\ numberOfNights' >= 0)
       => /\ totalPrice >= 0
          /\ totalPrice' >= 0
          /\ (/\ numberOfNights' = numberOfNights
              /\ appliedCoupon'.discount_percent >= appliedCoupon.discount_percent)
             => totalPrice' <= totalPrice
          /\ (/\ numberOfNights' = numberOfNights
              /\ appliedCoupon'.discount_percent <= appliedCoupon.discount_percent)
             => totalPrice' >= totalPrice
          /\ (appliedCoupon' = appliedCoupon /\ numberOfNights' >= numberOfNights)
             => totalPrice' >= totalPrice
          /\ (appliedCoupon' = appliedCoupon /\ numberOfNights' <= numberOfNights)
             => totalPrice' <= totalPrice]_vars

\* the coupon of 100 percent has replaced the one of 10 percent on a stay of
\* two nights, and the total is 0
C21_Witness ==
    /\ appliedCoupon = Free100
    /\ couponCode = "FREE100"
    /\ numberOfNights = 2
    /\ totalPrice = 0

\* the answers of the checkout endpoint that fail the submission: the request
\* rejected, a response that is not ok, a body that is not JSON
FailedAnswers == {"rejected", "not ok", "not json"}

\* a validation failure leaves the page, not loading, with its message and
\* the draft as submitted
ValidationFailurePreserves ==
    (handleSubmit /\ SubmitError # NoError)
    => /\ error' = SubmitError
       /\ ~isLoading'
       /\ location' = NoUrl
       /\ UNCHANGED <<bookingDetails, appliedCoupon>>

\* C22 as stated: after a failed submission the page is not loading and shows
\* a message, and checkIn, checkOut, guestName, guestEmail and the applied
\* coupon are those the submission was triggered with.
C22_FailureKeepsSubmittedDraft ==
    [][/\ ValidationFailurePreserves
       /\ \A answer \in FailedAnswers :
             handleSubmitAnswer(answer)
             => /\ error' \in {MsgCheckout, MsgThrown}
                /\ ~isLoading'
                /\ location' = NoUrl
                /\ bookingDetails'.checkIn = handoff[1].checkIn
                /\ bookingDetails'.checkOut = handoff[1].checkOut
                /\ bookingDetails'.guestName = handoff[1].guestName
                /\ bookingDetails'.guestEmail = handoff[1].guestEmail
                /\ appliedCoupon' = handoff[1].coupon]_vars

\* C22 amended: the failure itself changes nothing of the draft: the values
\* are those the dialog held when the failure arrived.
C22_FailurePreservesDraft ==
    [][/\ ValidationFailurePreserves
       /\ \A answer \in FailedAnswers :
             handleSubmitAnswer(answer)
             => /\ error' \in {MsgCheckout, MsgThrown}
                /\ ~isLoading'
                /\ location' = NoUrl
                /\ UNCHANGED <<bookingDetails, appliedCoupon>>]_vars

\* the checkout endpoint has refused a complete draft with a coupon applied
C22_Witness ==
    /\ error = MsgCheckout
    /\ ~isLoading
    /\ handoff = <<>>
    /\ location = NoUrl
    /\ DraftValid
    /\ appliedCoupon # NoCoupon

\* C23: with collaborators that answer, every submission in progress ends
\* not loading, redirected or with a message; every coupon lookup in progress
\* ends not validating, with a coupon applied or a message; and the load
\* ends.
C23_EveryOperationResolves ==
    /\ isLoading ~> (~isLoading /\ (location # NoUrl \/ error # NoError))
    /\ isValidatingCoupon
          ~> (~isValidatingCoupon /\ (appliedCoupon # NoCoupon \/ error # NoError))
    /\ fetchPending ~> ~fetchPending

\* a coupon lookup that failed while the checkout request was out, and the
\* redirect that followed: both have resolved
C23_Witness ==
    /\ ~isLoading
    /\ ~isValidatingCoupon
    /\ ~fetchPending
    /\ handoff = <<>>
    /\ couponLookup = <<>>
    /\ location = "checkout"
    /\ error = MsgCouponFailed

C25_OneReadOneHandoff ==
    /\ Len(fetchRequests) = 1
    /\ [][/\ Len(fetchRequests') <= Len(fetchRequests)
          /\ Len(handoff) <= 1
          /\ Len(handoff') <= 1
          /\ Len(handoff') > Len(handoff)
                => /\ ~isLoading
                   /\ isLoading'
                   /\ SubmitError = NoError
                   /\ handoff = <<>>]_vars

\* a second submission, after a failed one, has its request in flight and
\* the one read has been answered
C25_Witness ==
    /\ Len(handoff) = 1
    /\ isLoading
    /\ fetchRequests = <<>>
    /\ bookingDetails.checkOut # handoff[1].checkOut
    /\ appliedCoupon # NoCoupon

\* the total of a request recomputed from the coupon the request carries
PriceByCarriedCoupon(request) ==
    LET full == request.numberOfNights * PriceOf[apartment]
    IN  IF request.coupon = NoCoupon
        THEN full
        ELSE full - (full * request.coupon.discount_percent) \div 100

\* C26: a checkout request carries a coupon code and percent exactly when a
\* coupon is applied at the submission, they are those of the applied
\* coupon, and the price and the amount of the request are the total
\* discounted by that percent (the amount to within the rounding to cents).
C26_CarriedCouponIsPricedCoupon ==
    [][Issued
       => LET request == handoff'[Len(handoff')]
          IN  /\ request.coupon = appliedCoupon
              /\ request.price = PriceByCarriedCoupon(request)
              /\ request.unit_amount * 100 - request.price \in -50 .. 50]_vars

\* a request in flight that carries the 10 percent coupon for a stay of at
\* least one night
C26_Witness ==
    /\ handoff # <<>>
    /\ handoff[1].coupon = Save10
    /\ handoff[1].numberOfNights >= 1
    /\ handoff[1].price < handoff[1].numberOfNights * PriceOf[apartment]

\* C27: the page is left only by an answer of the checkout endpoint to a
\* request in flight, and only for the URL that a successful answer
\* returned: a rejected request, a non-success answer, a body that does not
\* parse and a successful answer without a URL leave the page where it is.
C27_RedirectOnlyToReturnedUrl ==
    [][location' # location
       => /\ handoff # <<>>
          /\ isLoading
          /\ location' = "checkout"]_vars

\* the draft holds both dates
BothDatesSet ==
    bookingDetails.checkIn # NoDate /\ bookingDetails.checkOut # NoDate

\* this step changes a date of the draft and leaves both dates set
DatesChosen ==
    /\ <<bookingDetails'.checkIn, bookingDetails'.checkOut>>
          # <<bookingDetails.checkIn, bookingDetails.checkOut>>
    /\ bookingDetails'.checkIn # NoDate
    /\ bookingDetails'.checkOut # NoDate

\* C28 as stated: in every reachable state in which the draft holds both
\* dates, checkOut is strictly after checkIn and no day of the inclusive
\* span is in the current DateSet, however the selections and the
\* completion of the load are ordered.
C28_DraftAlwaysConsistent ==
    BothDatesSet
    => /\ bookingDetails.checkOut > bookingDetails.checkIn
       /\ ~SpanIsBooked(bookingDetails.checkIn, bookingDetails.checkOut)

\* C28 amended: a date selection that is accepted and leaves both dates set
\* leaves no day of the inclusive span in the DateSet as it stands at the
\* selection, and with checkOut strictly after checkIn when it was the
\* check-in that was chosen; and a draft a checkout request is issued for
\* has checkOut strictly after checkIn and no day of its span in the
\* DateSet as it stands at the submission.
C28_DraftConsistentWhenAccepted ==
    [][/\ DatesChosen
            => /\ ~SpanIsBooked(bookingDetails'.checkIn, bookingDetails'.checkOut)
               /\ bookingDetails'.checkIn # bookingDetails.checkIn
                     => bookingDetails'.checkOut > bookingDetails'.checkIn
       /\ Issued
            => /\ BothDatesSet
               /\ bookingDetails.checkOut > bookingDetails.checkIn
               /\ ~SpanIsBooked(bookingDetails.checkIn,
                                bookingDetails.checkOut)]_vars

\* both dates were chosen before the load answered, and the answer has put
\* a day of the stored span into the DateSet; no request was issued for it
C28_Witness ==
    /\ BothDatesSet
    /\ bookingDetails.checkOut > bookingDetails.checkIn
    /\ LoadCompleted
    /\ SpanIsBooked(bookingDetails.checkIn, bookingDetails.checkOut)
    /\ error = MsgRangeBooked
    /\ handoff = <<>>
    /\ ~RequiredMissing

\* C29: every checkout request is for at least one night and a positive
\* amount, also when checkIn and checkOut are instants of one calendar day.
C29_AtLeastOneNight ==
    [][Issued
       => LET request == handoff'[Len(handoff')]
          IN  /\ differenceInDays(request.checkOut, request.checkIn) >= 1
              /\ request.numberOfNights >= 1
              /\ request.unit_amount > 0]_vars

\* this step is the answer to the checkout request in flight
Answered == handoff # <<>> /\ handoff' = <<>>

\* C30: a checkout request carries the dates, the guest fields, the coupon
\* and the total of the draft as it passed the validation of that
\* submission; while it is in flight no date choice, field edit or coupon
\* answer changes it; and its outcome is what the endpoint answered (the
\* page left, or one of the two checkout errors), whatever the draft has
\* become in the meantime.
C30_RequestIsValidatedDraft ==
    [][/\ Issued
            => LET request == handoff'[Len(handoff')]
               IN  /\ SubmitError = NoError
                   /\ request.checkIn = bookingDetails.checkIn
                   /\ request.checkOut = bookingDetails.checkOut
                   /\ request.guestName = bookingDetails.guestName
                   /\ request.guestEmail = bookingDetails.guestEmail
                   /\ request.coupon = appliedCoupon
                   /\ request.price = totalPrice
                   /\ request.unit_amount * 100 - totalPrice \in -50 .. 50
       /\ (handoff # <<>> /\ ~Answered) => handoff' = handoff
       /\ Answered
            => /\ ~isLoading'
               /\ \/ location' # NoUrl /\ error' = error
                  \/ location' = NoUrl /\ error' \in {MsgThrown, MsgCheckout}]_vars

\* the page was left for the checkout although the draft, changed while the
\* request was in flight, would no longer pass the validation
C30_Witness ==
    /\ location = "checkout"
    /\ SubmitError # NoError
    /\ handoff = <<>>

\* this step hands a date to onDateSelect
Forwarded == onDateSelect' # onDateSelect

\* C31: a day is forwarded to onDateSelect only if the rules are accepted at
\* that moment and the day is neither booked nor before the day of the
\* clock; a click on an enabled day while the rules are not accepted shows
\* the rules error and forwards nothing; ticking or unticking the rules
\* checkbox clears that error.
C31_ForwardOnlyAvailableDay ==
    [][/\ Forwarded
            => LET date == onDateSelect'[Len(onDateSelect')]
               IN  /\ rulesAccepted
                   /\ ~isDateBooked(date)
                   /\ DayOf(date) >= DayOf(now)
       /\ \A day \in Days :
             (dayButton(day) /\ ~rulesAccepted
                 /\ ~isDateBooked(parseISO(day)) /\ DayOf(today) <= day)
             => (showError' /\ ~Forwarded)
       /\ rulesAccepted' # rulesAccepted => ~showError']_vars

\* this step starts a coupon lookup
LookupStarted == Len(couponLookup') > Len(couponLookup)

\* this step is the answer to the coupon lookup in flight
LookupAnswered == couponLookup # <<>> /\ Len(couponLookup') < Len(couponLookup)

\* C32: at most one coupon lookup is in flight, and isValidatingCoupon is
\* true exactly while one is; a lookup starts only while none is in flight;
\* the applied coupon changes only when the lookup in flight, which is the
\* one started last, is answered, and is then the coupon of the code that
\* lookup asked for, or none.
C32_OneLookupInFlight ==
    [][/\ Len(couponLookup) <= 1
       /\ Len(couponLookup') <= 1
       /\ isValidatingCoupon <=> couponLookup # <<>>
       /\ LookupStarted
            => /\ ~isValidatingCoupon
               /\ couponLookup = <<>>
               /\ couponLookup' = <<trim(couponCode)>>
       /\ appliedCoupon' # appliedCoupon => LookupAnswered
       /\ LookupAnswered
            => /\ couponLookup' = <<>>
               /\ ~isValidatingCoupon'
               /\ appliedCoupon' \in {NoCoupon}
                      \cup {c \in Coupons : c.code = couponLookup[1]}]_vars

\* a second lookup, for another code, is in flight while the coupon that
\* the first one found is applied
C32_Witness ==
    /\ couponLookup = <<"FREE100">>
    /\ isValidatingCoupon
    /\ appliedCoupon = Save10
    /\ couponCode # "FREE100"

\* the range the draft would hold after the choice is incomplete or runs
\* forward, as every range the two pickers can produce
RunsForward(type, date) ==
    LET new == newBookingDetails(type, date)
    IN  \/ new.checkIn = NoDate
        \/ new.checkOut = NoDate
        \/ new.checkIn <= new.checkOut

\* the date chosen is not booked, and neither is a day of the range the
\* draft would hold after the choice
ChoiceIsFree(type, date) ==
    LET new == newBookingDetails(type, date)
    IN  /\ DayOf(date) \notin DateSetDays
        /\ \/ new.checkIn = NoDate
           \/ new.checkOut = NoDate
           \/ ~SpanIsBooked(new.checkIn, new.checkOut)

\* C33: a date choice that is accepted stores the date and clears the error,
\* whatever the error was; a date choice that is rejected sets the
\* booked-date or the booked-range error and changes nothing else; so the
\* error of a failed load is cleared by the next date choice, which the
\* empty DateSet lets through.
C33_ErrorTracksDateEvent ==
    [][\A type \in {"checkIn", "checkOut"}, date \in Dates :
          (handleDateChange(type, date) /\ RunsForward(type, date))
          => /\ IF ChoiceIsFree(type, date)
                THEN /\ bookingDetails' = newBookingDetails(type, date)
                     /\ error' = NoError
                ELSE /\ error' \in {MsgDateBooked, MsgRangeBooked}
                     /\ UNCHANGED exceptError
             /\ (error = MsgFetch /\ bookedDates = {})
                   => (error' = NoError /\ bookedDates' = {})]_vars

\* the load has failed, and a date chosen since has cleared its error: the
\* DateSet is empty, no message is shown and nothing was submitted
C33_Witness ==
    /\ ~fetchPending
    /\ bookedFor = NoApartment
    /\ bookedDates = {}
    /\ error = NoError
    /\ bookingDetails.checkIn # NoDate
    /\ bookingDetails.checkOut = NoDate
    /\ location = NoUrl

====
